---- MODULE Spec2Model ----
(***************************************************************************)
(* A model of dsg's Catalog Client (internal/datahub), History Store      *)
(* (storage), Entity Schemas and generate command.                         *)
(*                                                                         *)
(*   SpecPost      one Client.PostEntity call: payload check, JSON array   *)
(*                 parsing, one POST per element, fail-fast.               *)
(*   SpecGet       Client.GetDatasets calls: the scroll loop over          *)
(*                 paginateDatasets and the page callback.                 *)
(*   SpecScroll    the same loop with a finite record, and fairness.       *)
(*   SpecStore     the SQLite history store: SaveResponse, GetResponse,    *)
(*                 ListResponses, DeleteResponse, ClearHistory.            *)
(*   SpecLife      the store across DeleteResponse and reopening.          *)
(*   SpecList      ListResponses page by page over a given table.          *)
(*   SpecJSON      a Dataset through json.Marshal and json.Unmarshal.      *)
(*   SpecGenerate  the generate command from the model's answer on.        *)
(*                                                                         *)
(* Text (payloads, request bodies) is a sequence of one-character strings. *)
(***************************************************************************)
EXTENDS Integers, Sequences, FiniteSets, TLC

VARIABLES
    \* ---- PostEntity ----
    payload,      \* the payload argument
    resource,     \* the resource argument
    postPc,       \* "call" | "loop" | "done"
    datasets,     \* []json.RawMessage parsed from the payload
    postIdx,      \* index of the next element to post (1-based)
    postReqs,     \* HTTP requests issued, in order
    postResps,    \* the answer to each request, in order
    postRet,      \* the (int, error) returned
    catalog,      \* request bodies the server accepted (answered 2xx)
    \* ---- GetDatasets ----
    perPage,      \* opts.PerPage
    getPc,        \* "idle" | "request" | "callback" | "done"
    scrollId,     \* GetDatasets' scrollId
    pageLen,      \* len(datasets) of the page paginateDatasets returned
    nextScrollId, \* the nextScrollId paginateDatasets returned
    getReqs,      \* HTTP requests issued by the current call, in order
    getResps,     \* the answer to each request of the current call
    pageCalls,    \* invocations of the page callback by the current call
    getRet,       \* the error returned by the current call
    prevCursors,  \* cursors the server returned to earlier calls
    nReqs,        \* requests issued by all calls so far
    \* ---- History Store ----
    rows,         \* the rows of table responses
    seq,          \* the table's entry in sqlite_sequence (AUTOINCREMENT)
    now,          \* the wall clock in seconds (CURRENT_TIMESTAMP)
    storeRet,     \* the last store operation, its arguments and what it returned
    saved,        \* every successful SaveResponse: the id returned, the arguments
                  \* and the time of the insert
    removed,      \* the ids a successful DeleteResponse or ClearHistory removed
    opens,        \* how many times NewSQLiteStorage has opened the database file
    \* ---- History Store, its callers' record ----
    deleted,      \* the ids a DeleteResponse that returned no error was called with
    cleared,      \* a ClearHistory succeeded and no SaveResponse has since
    \* ---- history list, page by page ----
    pageSize,     \* the limit of the listing that is under way
    pages,        \* what ListResponses returned for each page so far
    \* ---- Entity Schemas ----
    jsonPc,       \* "idle" | "value" | "encoded" | "decoded"
    original,     \* a Dataset
    encoded,      \* the JSON value json.Marshal gave for it
    decoded,      \* the Dataset json.Unmarshal made of that
    \* ---- generate command ----
    genPc,        \* "idle" | "llm" | "write" | "parse" | "open" | "save" |
                  \* "print" | "post" | "done"
    toStdout,     \* --stdout
    skipPost,     \* --skip-post
    genOut,       \* what the command has printed and logged, in order
    genRet        \* the error runGenerate returned

postVars == <<payload, resource, postPc, datasets, postIdx, postReqs, postResps,
              postRet, catalog>>

getVars == <<perPage, getPc, scrollId, pageLen, nextScrollId, getReqs, getResps,
             pageCalls, getRet, prevCursors, nReqs>>

storeVars == <<rows, seq, now, storeRet, saved, removed, opens>>

histVars == <<deleted, cleared>>

listVars == <<pageSize, pages>>

jsonVars == <<jsonPc, original, encoded, decoded>>

genVars == <<genPc, toStdout, skipPost, genOut, genRet>>

vars == <<postVars, getVars, storeVars, histVars, listVars, jsonVars, genVars>>

----------------------------------------------------------------------------
(* Bounds *)

MaxLen == 4        \* Init draws every text of at most this many characters
MaxElems == 3      \* and every compact array of at most this many elements
MaxPerPage == 2    \* opts.PerPage is drawn from 1..MaxPerPage
MaxPageLen == 3    \* the server returns at most this many entities in a page
MaxRequests == 4   \* GET requests issued in one behaviour
MaxSaves == 2      \* SaveResponse calls in one behaviour
MaxClock == 2      \* seconds the wall clock advances through
MaxLimit == 0      \* ListResponses' limit and offset are drawn from -1..MaxLimit
MaxRows == 2       \* rows of the table a page-by-page listing starts from
MaxFields == 1     \* schema fields of a Dataset
MaxGenLen == 2     \* the language model returns every text of at most this many
                   \* characters, and the compact arrays of Payloads
MaxReopens == 1    \* times the database file is closed and opened again

----------------------------------------------------------------------------
(* Text helpers *)

\* the alphabet of the modelled texts: JSON punctuation, a digit, the space
\* and the form feed
Chars == {"[", "]", "{", "}", ",", " ", "\f", "1"}

\* unicode.IsSpace, on the alphabet
IsSpace(c) == c \in {" ", "\f"}

RECURSIVE TextsOfLen(_)
TextsOfLen(n) ==
    IF n = 0 THEN {<<>>}
    ELSE {Append(t, c) : t \in TextsOfLen(n - 1), c \in Chars}

Texts(n) == UNION {TextsOfLen(k) : k \in 0..n}

\* strings.TrimSpace: leading and trailing Unicode white space is cut
RECURSIVE TrimLeft(_)
TrimLeft(s) ==
    IF s # <<>> /\ IsSpace(Head(s)) THEN TrimLeft(Tail(s)) ELSE s

RECURSIVE TrimRight(_)
TrimRight(s) ==
    IF s # <<>> /\ IsSpace(s[Len(s)]) THEN TrimRight(SubSeq(s, 1, Len(s) - 1)) ELSE s

TrimSpace(s) == TrimRight(TrimLeft(s))

HasPrefix(s, c) == s # <<>> /\ s[1] = c

HasSuffix(s, c) == s # <<>> /\ s[Len(s)] = c

----------------------------------------------------------------------------
(* encoding/json, on the alphabet: a value is a number (1+), the empty      *)
(* object or an array of values; JSON white space (of the alphabet, the    *)
(* space only: the form feed is none) may surround any token.  An end      *)
(* index of 0 means a syntax error.                                        *)

RECURSIVE SkipWs(_, _)
SkipWs(s, i) ==
    IF i <= Len(s) /\ s[i] = " " THEN SkipWs(s, i + 1) ELSE i

RECURSIVE NumEnd(_, _)
NumEnd(s, i) ==
    IF i <= Len(s) /\ s[i] = "1" THEN NumEnd(s, i + 1) ELSE i

RECURSIVE ValueEnd(_, _)
RECURSIVE ElemsEnd(_, _)

\* i is the index of the first character of a value; the index just past it
ValueEnd(s, i) ==
    IF i > Len(s) THEN 0
    ELSE IF s[i] = "1" THEN NumEnd(s, i)
    ELSE IF s[i] = "{" THEN
        LET j == SkipWs(s, i + 1)
        IN  IF j <= Len(s) /\ s[j] = "}" THEN j + 1 ELSE 0
    ELSE IF s[i] = "[" THEN
        LET j == SkipWs(s, i + 1)
        IN  IF j <= Len(s) /\ s[j] = "]" THEN j + 1 ELSE ElemsEnd(s, j)
    ELSE 0

\* i is the index of the first character of an array element; the index just
\* past the "]" that closes the array
ElemsEnd(s, i) ==
    LET e == ValueEnd(s, i)
    IN  IF e = 0 THEN 0
        ELSE LET j == SkipWs(s, e)
             IN  IF j > Len(s) THEN 0
                 ELSE IF s[j] = "]" THEN j + 1
                 ELSE IF s[j] = "," THEN ElemsEnd(s, SkipWs(s, j + 1))
                 ELSE 0

\* json.Valid: one value, white space around it, nothing else
Valid(s) ==
    LET e == ValueEnd(s, SkipWs(s, 1))
    IN  e # 0 /\ SkipWs(s, e) = Len(s) + 1

\* the raw text of each element of the array whose first element starts at i
\* (the text is valid): the element without the white space around it
RECURSIVE RawElems(_, _)
RawElems(s, i) ==
    LET e == ValueEnd(s, i)
        j == SkipWs(s, e)
    IN  IF s[j] = "]" THEN <<SubSeq(s, i, e - 1)>>
        ELSE <<SubSeq(s, i, e - 1)>> \o RawElems(s, SkipWs(s, j + 1))

\* json.Unmarshal(data, &datasets) with datasets []json.RawMessage
Unmarshal(s) ==
    LET i == SkipWs(s, 1)
    IN  IF ~Valid(s) THEN [ok |-> FALSE, err |-> "syntax", datasets |-> <<>>]
        ELSE IF s[i] # "[" THEN [ok |-> FALSE, err |-> "type", datasets |-> <<>>]
        ELSE LET j == SkipWs(s, i + 1)
             IN  [ok |-> TRUE, err |-> "",
                  datasets |-> IF s[j] = "]" THEN <<>> ELSE RawElems(s, j)]

----------------------------------------------------------------------------
(* Parts of the model that are at rest while another one runs *)

GetIdle ==
    /\ perPage = 0
    /\ getPc = "idle"
    /\ scrollId = ""
    /\ pageLen = 0
    /\ nextScrollId = ""
    /\ getReqs = <<>>
    /\ getResps = <<>>
    /\ pageCalls = <<>>
    /\ getRet = [msg |-> "nil"]
    /\ prevCursors = {}
    /\ nReqs = 0

StoreIdle ==
    /\ rows = {}
    /\ seq = 0
    /\ now = 1
    /\ storeRet = [op |-> "open", err |-> "nil"]
    /\ saved = <<>>
    /\ removed = {}
    /\ opens = 1
    /\ deleted = {}
    /\ cleared = FALSE

ListIdle ==
    /\ pageSize = 0
    /\ pages = <<>>

JsonIdle ==
    /\ jsonPc = "idle"
    /\ original = <<>>
    /\ encoded = <<>>
    /\ decoded = <<>>

GenIdle ==
    /\ genPc = "idle"
    /\ toStdout = FALSE
    /\ skipPost = FALSE
    /\ genOut = <<>>
    /\ genRet = [msg |-> "nil"]

----------------------------------------------------------------------------
(* Catalog Client: PostEntity *)

Resources == {"dataset", "glossaryTerm"}

Statuses == {199, 200, 299, 300, 500}

\* what HttpClient.Do can give back for one request
Outcomes ==
    {[kind |-> "transport", status |-> 0]}
        \cup {[kind |-> "http", status |-> st] : st \in Statuses}

Nil == [msg |-> "nil"]

\* a compact array text: "[" e1 "," e2 ... "]"
RECURSIVE JoinElems(_)
JoinElems(es) ==
    IF es = <<>> THEN <<>>
    ELSE IF Len(es) = 1 THEN es[1]
    ELSE es[1] \o <<",">> \o JoinElems(Tail(es))

ArrayText(es) == <<"[">> \o JoinElems(es) \o <<"]">>

ElemTexts == {<<"1">>, <<"{", "}">>}

RECURSIVE ElemSeqs(_)
ElemSeqs(n) ==
    IF n = 0 THEN {<<>>}
    ELSE {Append(es, e) : es \in ElemSeqs(n - 1), e \in ElemTexts}

Payloads ==
    Texts(MaxLen) \cup {ArrayText(es) : es \in UNION {ElemSeqs(k) : k \in 0..MaxElems}}

\* resp.StatusCode < 200 || resp.StatusCode >= 300 is the failure
StatusOK(st) == ~(st < 200 \/ st >= 300)

\* variant: the element is sent as it is
BodyNotWrapped(e) == e

\* the request body: strings.NewReader("["+payload+"]")
WrapBody(e) == <<"[">> \o e \o <<"]">>

PostRequest(res, e) == [method |-> "POST", resource |-> res, body |-> WrapBody(e)]

\* the error postSingleEntity returns for the outcome of HttpClient.Do
PostSingleEntityErr(o) ==
    IF o.kind = "transport"
        THEN [msg |-> "error sending request", cause |-> "transport"]
    ELSE IF ~StatusOK(o.status)
        THEN [msg |-> "request failed with status code", code |-> o.status]
    ELSE Nil

\* variant: a failed post is logged and the loop goes on to the next element
PostLoopStepKeepsGoing(i, n, err) ==
    IF i = n
        THEN [pc |-> "done", idx |-> i,
              ret |-> IF err # Nil
                      THEN [count |-> 0,
                            err |-> [msg |-> "error posting dataset", n |-> i, cause |-> err]]
                      ELSE [count |-> n, err |-> Nil]]
    ELSE [pc |-> "loop", idx |-> i + 1, ret |-> [count |-> 0, err |-> Nil]]

\* variant: a failed batch returns the number of elements posted before the
\* failure
PostLoopStepPartialCount(i, n, err) ==
    IF err # Nil
        THEN [pc |-> "done", idx |-> i,
              ret |-> [count |-> i - 1,
                       err |-> [msg |-> "error posting dataset", n |-> i, cause |-> err]]]
    ELSE IF i = n
        THEN [pc |-> "done", idx |-> i, ret |-> [count |-> n, err |-> Nil]]
    ELSE [pc |-> "loop", idx |-> i + 1, ret |-> [count |-> 0, err |-> Nil]]

\* the body of the range loop for element i of n, given postSingleEntity's
\* error: where the call goes next and what it returns
PostLoopStep(i, n, err) ==
    IF err # Nil
        THEN [pc |-> "done", idx |-> i,
              ret |-> [count |-> 0,
                       err |-> [msg |-> "error posting dataset", n |-> i, cause |-> err]]]
    ELSE IF i = n
        THEN [pc |-> "done", idx |-> i, ret |-> [count |-> n, err |-> Nil]]
    ELSE [pc |-> "loop", idx |-> i + 1, ret |-> [count |-> 0, err |-> Nil]]

NoRet == [count |-> 0, err |-> Nil]

\* variant: the commented-out last line of PostEntity (and PostDatasets), which
\* posts a payload that is not an array as a single entity
BareObjectPosted(p) ==
    [pc |-> "loop", datasets |-> <<p>>, ret |-> NoRet]

\* PostEntity's last statement, reached when the trimmed payload does not
\* start with "[" and end with "]": errors.New, nothing is posted
PostEntityNotArray(p) ==
    [pc |-> "done", datasets |-> <<>>,
     ret |-> [count |-> 0, err |-> [msg |-> "error parsing dataset array"]]]

\* PostEntity up to its first request: the prefix/suffix check and the parse
PostEntityCheck(p) ==
    LET t == TrimSpace(p)
    IN  IF HasPrefix(t, "[") /\ HasSuffix(t, "]")
        THEN LET u == Unmarshal(t)
             IN  IF ~u.ok
                 THEN [pc |-> "done", datasets |-> <<>>,
                       ret |-> [count |-> 0,
                                err |-> [msg |-> "error parsing dataset array",
                                         cause |-> u.err]]]
                 ELSE IF u.datasets = <<>>
                 THEN [pc |-> "done", datasets |-> <<>>, ret |-> [count |-> 0, err |-> Nil]]
                 ELSE [pc |-> "loop", datasets |-> u.datasets, ret |-> NoRet]
        ELSE PostEntityNotArray(p)

PostEntity ==
    /\ postPc = "call"
    /\ LET c == PostEntityCheck(payload)
       IN  /\ postPc' = c.pc
           /\ datasets' = c.datasets
           /\ postIdx' = IF c.pc = "loop" THEN 1 ELSE 0
           /\ postRet' = c.ret
    /\ UNCHANGED <<payload, resource, postReqs, postResps, catalog>>

\* one iteration of the range loop: postSingleEntity for element postIdx, the
\* server's answer, and the return when the loop ends here
PostSingleEntity ==
    /\ postPc = "loop"
    /\ \E o \in Outcomes :
        LET req == PostRequest(resource, datasets[postIdx])
            nxt == PostLoopStep(postIdx, Len(datasets), PostSingleEntityErr(o))
        IN  /\ postReqs' = Append(postReqs, req)
            /\ postResps' = Append(postResps, o)
            /\ catalog' = IF o.kind = "http" /\ o.status \in 200..299
                          THEN Append(catalog, req.body) ELSE catalog
            /\ postPc' = nxt.pc
            /\ postIdx' = nxt.idx
            /\ postRet' = nxt.ret
    /\ UNCHANGED <<payload, resource, datasets>>

InitPost ==
    /\ payload \in Payloads
    /\ resource \in Resources
    /\ postPc = "call"
    /\ datasets = <<>>
    /\ postIdx = 0
    /\ postReqs = <<>>
    /\ postResps = <<>>
    /\ postRet = NoRet
    /\ catalog = <<>>
    /\ GetIdle
    /\ StoreIdle
    /\ ListIdle
    /\ JsonIdle
    /\ GenIdle

NextPost ==
    \/ PostEntity /\ UNCHANGED <<getVars, storeVars, histVars, listVars, jsonVars, genVars>>
    \/ PostSingleEntity /\ UNCHANGED <<getVars, storeVars, histVars, listVars, jsonVars, genVars>>

SpecPost == InitPost /\ [][NextPost]_vars

----------------------------------------------------------------------------
(* Catalog Client: GetDatasets *)

PerPages == 1..MaxPerPage

\* scroll cursors the server hands out; "" is a response without scrollId
Cursors == {"", "c1", "c2"}

GetStatuses == {199, 200, 300}

\* what HttpClient.Do can give back for a GET: no answer, or a status with a
\* body that cannot be read to its end ("unreadable"), is not the envelope
\* ("garbage") or is an envelope of n entities and a scrollId.  The body of a
\* non-2xx answer is never read.
GetOutcomes ==
    {[kind |-> "transport", status |-> 0, body |-> "none", n |-> 0, cursor |-> ""]}
        \cup {[kind |-> "http", status |-> st, body |-> b, n |-> 0, cursor |-> ""] :
                st \in GetStatuses, b \in {"unreadable", "garbage"}}
        \cup {[kind |-> "http", status |-> 200, body |-> "envelope", n |-> n, cursor |-> c] :
                n \in 0..MaxPageLen, c \in Cursors}

\* the URL paginateDatasets builds: the fixed parameters, count, and either
\* sort/sortOrder/query or scrollId (the cursor text, not escaped)
PaginateURL(count, sid) ==
    [method |-> "GET",
     aspects |-> {"glossaryTerms", "editableSchemaMetadata", "schemaMetadata"},
     count |-> count,
     params |-> IF sid = ""
                THEN [sort |-> "urn", sortOrder |-> "ASCENDING", query |-> "*"]
                ELSE [scrollId |-> sid]]

\* what paginateDatasets returns for the outcome of HttpClient.Do:
\* (datasets, nextScrollId, err), datasets by its length
PaginateResult(o) ==
    IF o.kind = "transport"
        THEN [n |-> 0, next |-> "",
              err |-> [msg |-> "error sending request", cause |-> "transport"]]
    ELSE IF o.status < 200 \/ o.status >= 300
        THEN [n |-> 0, next |-> "",
              err |-> [msg |-> "request failed with status code", code |-> o.status]]
    ELSE IF o.body = "unreadable"
        THEN [n |-> 0, next |-> "",
              err |-> [msg |-> "error reading response body", cause |-> "io"]]
    ELSE IF o.body # "envelope"
        THEN [n |-> 0, next |-> "",
              err |-> [msg |-> "error unmarshaling response", cause |-> "json"]]
    ELSE IF o.n = 0
        THEN [n |-> 0, next |-> "", err |-> Nil]
    ELSE [n |-> o.n, next |-> o.cursor, err |-> Nil]

\* variant: a failed request is sent again
GetAfterPaginateRetries(r) ==
    IF r.err # Nil THEN [pc |-> "request", ret |-> Nil]
    ELSE IF r.n = 0 THEN [pc |-> "done", ret |-> Nil]
    ELSE [pc |-> "callback", ret |-> Nil]

\* variant: an empty page is handed to the callback like any other
GetAfterPaginateCallsEmpty(r) ==
    IF r.err # Nil THEN [pc |-> "done", ret |-> r.err]
    ELSE [pc |-> "callback", ret |-> Nil]

\* GetDatasets' loop body from paginateDatasets' return to the callback
GetAfterPaginate(r) ==
    IF r.err # Nil THEN [pc |-> "done", ret |-> r.err]
    ELSE IF r.n = 0 THEN [pc |-> "done", ret |-> Nil]
    ELSE [pc |-> "callback", ret |-> Nil]

\* variant: the scrollId of the first follow-up request is kept for the rest
GetAfterPageKeepsCursor(err, next, cur) ==
    IF err # Nil THEN [pc |-> "done", scrollId |-> cur, ret |-> err]
    ELSE IF next = "" THEN [pc |-> "done", scrollId |-> cur, ret |-> Nil]
    ELSE [pc |-> "request", scrollId |-> IF cur = "" THEN next ELSE cur, ret |-> Nil]

\* variant: the callback's error is looked at only on the last page
GetAfterPageIgnoresError(err, next, cur) ==
    IF next = "" THEN [pc |-> "done", scrollId |-> cur, ret |-> err]
    ELSE [pc |-> "request", scrollId |-> next, ret |-> Nil]

\* variant: the missing scrollId of the answer is not looked at
GetAfterPageNoCursorCheck(err, next, cur) ==
    IF err # Nil THEN [pc |-> "done", scrollId |-> cur, ret |-> err]
    ELSE [pc |-> "request", scrollId |-> next, ret |-> Nil]

\* GetDatasets' loop body from the callback's return to the next iteration
GetAfterPage(err, next, cur) ==
    IF err # Nil THEN [pc |-> "done", scrollId |-> cur, ret |-> err]
    ELSE IF next = "" THEN [pc |-> "done", scrollId |-> cur, ret |-> Nil]
    ELSE [pc |-> "request", scrollId |-> next, ret |-> Nil]

\* errors the page callback may return
PageErrs == {[msg |-> "page error A"], [msg |-> "page error B"]}

\* a call of GetDatasets, up to its first request
GetDatasets ==
    /\ getPc \in {"idle", "done"}
    /\ nReqs < MaxRequests
    /\ perPage' \in PerPages
    /\ scrollId' = ""
    /\ getPc' = "request"
    /\ pageLen' = 0
    /\ nextScrollId' = ""
    /\ getReqs' = <<>>
    /\ getResps' = <<>>
    /\ pageCalls' = <<>>
    /\ getRet' = Nil
    /\ prevCursors' = prevCursors \cup ({getResps[k].cursor : k \in 1..Len(getResps)} \ {""})
    /\ UNCHANGED nReqs

\* one paginateDatasets call and what GetDatasets does with its result
PaginateDatasets ==
    /\ getPc = "request"
    /\ nReqs < MaxRequests
    /\ \E o \in GetOutcomes :
        LET r == PaginateResult(o)
            nxt == GetAfterPaginate(r)
        IN  /\ getReqs' = Append(getReqs, PaginateURL(perPage, scrollId))
            /\ getResps' = Append(getResps, o)
            /\ nReqs' = nReqs + 1
            /\ pageLen' = r.n
            /\ nextScrollId' = r.next
            /\ getPc' = nxt.pc
            /\ getRet' = nxt.ret
    /\ UNCHANGED <<perPage, scrollId, pageCalls, prevCursors>>

\* the page callback runs and GetDatasets goes on from its result
Page ==
    /\ getPc = "callback"
    /\ \E err \in {Nil} \cup PageErrs :
        LET nxt == GetAfterPage(err, nextScrollId, scrollId)
        IN  /\ pageCalls' = Append(pageCalls,
                                   [resp |-> Len(getResps), count |-> pageLen, err |-> err])
            /\ getPc' = nxt.pc
            /\ scrollId' = nxt.scrollId
            /\ getRet' = nxt.ret
    /\ UNCHANGED <<perPage, pageLen, nextScrollId, getReqs, getResps, prevCursors, nReqs>>

PostIdle ==
    /\ payload = <<>>
    /\ resource = "dataset"
    /\ postPc = "done"
    /\ datasets = <<>>
    /\ postIdx = 0
    /\ postReqs = <<>>
    /\ postResps = <<>>
    /\ postRet = NoRet
    /\ catalog = <<>>

InitGet == GetIdle /\ PostIdle /\ StoreIdle /\ ListIdle /\ JsonIdle /\ GenIdle

NextGet ==
    \/ GetDatasets /\ UNCHANGED <<postVars, storeVars, histVars, listVars, jsonVars, genVars>>
    \/ PaginateDatasets /\ UNCHANGED <<postVars, storeVars, histVars, listVars, jsonVars, genVars>>
    \/ Page /\ UNCHANGED <<postVars, storeVars, histVars, listVars, jsonVars, genVars>>

SpecGet == InitGet /\ [][NextGet]_vars

----------------------------------------------------------------------------
(* Catalog Client: GetDatasets as the loop that runs on and on.  The same  *)
(* code as above, with the record of a call cut down to its first and its  *)
(* latest request, the latest answer and the callback made for that        *)
(* answer, the way the function itself keeps only the page and the cursors *)
(* at hand: the states are then finitely many and a call that never        *)
(* returns is a cycle among them.                                          *)

\* a call of GetDatasets, up to its first request
ScrollCall ==
    /\ getPc \in {"idle", "done"}
    /\ perPage' \in PerPages
    /\ scrollId' = ""
    /\ getPc' = "request"
    /\ pageLen' = 0
    /\ nextScrollId' = ""
    /\ getReqs' = <<>>
    /\ getResps' = <<>>
    /\ pageCalls' = <<>>
    /\ getRet' = Nil
    /\ prevCursors' = prevCursors \cup ({getResps[k].cursor : k \in 1..Len(getResps)} \ {""})
    /\ UNCHANGED nReqs

\* one paginateDatasets call and what GetDatasets does with its result
ScrollRequest ==
    /\ getPc = "request"
    /\ \E o \in GetOutcomes :
        LET r == PaginateResult(o)
            nxt == GetAfterPaginate(r)
        IN  /\ getReqs' = IF getReqs = <<>>
                           THEN <<PaginateURL(perPage, scrollId)>>
                           ELSE <<getReqs[1], PaginateURL(perPage, scrollId)>>
            /\ getResps' = <<o>>
            /\ pageCalls' = <<>>
            /\ pageLen' = r.n
            /\ nextScrollId' = r.next
            /\ getPc' = nxt.pc
            /\ getRet' = nxt.ret
    /\ UNCHANGED <<perPage, scrollId, prevCursors, nReqs>>

\* the page callback runs and GetDatasets goes on from its result
ScrollPage ==
    /\ getPc = "callback"
    /\ \E err \in {Nil} \cup PageErrs :
        LET nxt == GetAfterPage(err, nextScrollId, scrollId)
        IN  /\ pageCalls' = <<[resp |-> 1, count |-> pageLen, err |-> err]>>
            /\ getPc' = nxt.pc
            /\ scrollId' = nxt.scrollId
            /\ getRet' = nxt.ret
    /\ UNCHANGED <<perPage, pageLen, nextScrollId, getReqs, getResps, prevCursors, nReqs>>

NextScroll ==
    \/ ScrollCall /\ UNCHANGED <<postVars, storeVars, histVars, listVars, jsonVars, genVars>>
    \/ ScrollRequest /\ UNCHANGED <<postVars, storeVars, histVars, listVars, jsonVars, genVars>>
    \/ ScrollPage /\ UNCHANGED <<postVars, storeVars, histVars, listVars, jsonVars, genVars>>

\* the loop is sequential and blocking: a request that is sent is answered and
\* a callback that is entered returns; nothing makes the caller call again
SpecScroll ==
    /\ InitGet
    /\ [][NextScroll]_vars
    /\ WF_vars(ScrollRequest
                /\ UNCHANGED <<postVars, storeVars, histVars, listVars, jsonVars, genVars>>)
    /\ WF_vars(ScrollPage
                /\ UNCHANGED <<postVars, storeVars, histVars, listVars, jsonVars, genVars>>)

----------------------------------------------------------------------------
(* History Store *)

\* time.Time{}: the CreatedAt of a Response that was never assigned one
ZeroTime == 0

\* (prompt, response, schemaName, schemaURN, datasetName) of a SaveResponse
\* call; the three names are empty when none could be extracted
SaveArgs ==
    {<<"p1", "r1", "", "", "">>,
     <<"p2", "r2", "s2", "u2", "d2">>}

Ids == 0..MaxSaves

Limits == (-1)..MaxLimit

\* variant: id INTEGER PRIMARY KEY without AUTOINCREMENT, one more than the
\* largest id in the table
NextIdReusesDeleted(rs, sq) ==
    IF rs = {} THEN 1
    ELSE 1 + (CHOOSE m \in {r.id : r \in rs} : \A r \in rs : r.id <= m)

\* id INTEGER PRIMARY KEY AUTOINCREMENT: one more than the largest id the
\* table ever held, which sqlite_sequence keeps
NextId(rs, sq) == sq + 1

\* INSERT INTO responses (prompt, response, schema_name, schema_urn,
\* dataset_name) VALUES (?, ?, ?, ?, ?) with id and created_at by default
InsertRow(id, a, t) ==
    [id |-> id, prompt |-> a[1], response |-> a[2], schema_name |-> a[3],
     schema_urn |-> a[4], dataset_name |-> a[5], created_at |-> t]

\* SELECT id, prompt, response, schema_name, schema_urn, dataset_name,
\* created_at: the columns of a row in that order
SelectColumns(r) ==
    <<r.id, r.prompt, r.response, r.schema_name, r.schema_urn, r.dataset_name,
      r.created_at>>

\* variant: the schema URN and the dataset name are scanned into each other
ScanSwapsNames(c) ==
    [ID |-> c[1], Prompt |-> c[2], Response |-> c[3], SchemaName |-> c[4],
     SchemaURN |-> c[6], DatasetName |-> c[5], CreatedAt |-> ZeroTime]

\* Scan(&resp.ID, &resp.Prompt, &resp.Response, &resp.SchemaName,
\* &resp.SchemaURN, &resp.DatasetName, &createdAt): the seventh column goes to
\* the local createdAt, and resp.CreatedAt keeps its zero value
Scan(c) ==
    [ID |-> c[1], Prompt |-> c[2], Response |-> c[3], SchemaName |-> c[4],
     SchemaURN |-> c[5], DatasetName |-> c[6], CreatedAt |-> ZeroTime]

\* variant: ORDER BY created_at ASC
OrderingsAscending(rs) ==
    {q \in [1..Cardinality(rs) -> rs] :
        /\ \A i, j \in 1..Cardinality(rs) : i # j => q[i] # q[j]
        /\ \A i \in 1..(Cardinality(rs) - 1) : q[i].created_at <= q[i + 1].created_at}

\* ORDER BY created_at DESC: every order of the rows with created_at
\* non-increasing (SQL leaves the order of rows with equal keys open)
Orderings(rs) ==
    {q \in [1..Cardinality(rs) -> rs] :
        /\ \A i, j \in 1..Cardinality(rs) : i # j => q[i] # q[j]
        /\ \A i \in 1..(Cardinality(rs) - 1) : q[i].created_at >= q[i + 1].created_at}

\* variant: the window is one row longer than the limit
LimitOffsetOneMore(q, limit, offset) ==
    LET off == IF offset < 0 THEN 0 ELSE offset
        last == IF limit < 0 \/ off + limit + 1 > Len(q) THEN Len(q) ELSE off + limit + 1
    IN  SubSeq(q, off + 1, last)

\* LIMIT ? OFFSET ?: a negative limit is no limit, a negative offset is 0
LimitOffset(q, limit, offset) ==
    LET off == IF offset < 0 THEN 0 ELSE offset
        last == IF limit < 0 \/ off + limit > Len(q) THEN Len(q) ELSE off + limit
    IN  SubSeq(q, off + 1, last)

\* a SQLiteStorage is at hand: the last NewSQLiteStorage returned one
Opened == storeRet.op # "open" \/ storeRet.err = "nil"

\* variant: the table is dropped and created again at every open
CreateTableDropsExisting(tbl) == [rows |-> {}, seq |-> 0]

\* CREATE TABLE IF NOT EXISTS responses (...): a table that is in the database
\* file stays as it is, its rows and its sqlite_sequence entry included
CreateTableIfNotExists(tbl) == tbl

\* variant: DELETE FROM responses WHERE id <= ?
DeleteRowsUpTo(rs, id) == {r \in rs : r.id > id}

\* DELETE FROM responses WHERE id = ?
DeleteRows(rs, id) == {r \in rs : r.id # id}

\* variant: the newest row survives
ClearKeepsNewest(rs) == {r \in rs : \A x \in rs : x.id <= r.id}

\* DELETE FROM responses
ClearRows(rs) == {}

\* Close, then NewSQLiteStorage on the same database file: the open, or its
\* failure, which leaves the caller without a SQLiteStorage
NewSQLiteStorage ==
    /\ opens <= MaxReopens
    /\ \E fails \in BOOLEAN :
        IF fails
        THEN /\ storeRet' = [op |-> "open", err |-> "failed to open database"]
             /\ UNCHANGED <<rows, seq, opens>>
        ELSE LET tbl == CreateTableIfNotExists([rows |-> rows, seq |-> seq])
             IN  /\ rows' = tbl.rows
                 /\ seq' = tbl.seq
                 /\ opens' = opens + 1
                 /\ storeRet' = [op |-> "open", err |-> "nil"]
    /\ UNCHANGED <<now, saved, removed>>

\* the arguments of the first SaveResponse of SaveArgs
PlainArgs == <<"p1", "r1", "", "", "">>

\* SaveResponse with arguments drawn from args: the insert, or its failure,
\* which leaves the table as it was
SaveResponseWith(args) ==
    /\ Opened
    /\ Len(saved) < MaxSaves
    /\ \E a \in args, fails \in BOOLEAN :
        IF fails
        THEN /\ storeRet' = [op |-> "save", args |-> a, id |-> 0,
                              err |-> "failed to insert response"]
             /\ UNCHANGED <<rows, seq, saved>>
        ELSE LET id == NextId(rows, seq)
             IN  /\ rows' = rows \cup {InsertRow(id, a, now)}
                 /\ seq' = id
                 /\ saved' = Append(saved, [id |-> id, args |-> a, at |-> now,
                                            open |-> opens])
                 /\ storeRet' = [op |-> "save", args |-> a, id |-> id, err |-> "nil"]
    /\ UNCHANGED <<now, removed, opens>>

SaveResponse == SaveResponseWith(SaveArgs)

\* SaveResponse of an entry without names
SavePlain == SaveResponseWith({PlainArgs})

\* GetResponse: the row with that id scanned into a Response, or the errors
GetResponse ==
    /\ Opened
    /\ \E id \in Ids, fails \in BOOLEAN :
        storeRet' =
            IF fails
            THEN [op |-> "get", id |-> id, found |-> FALSE, err |-> "failed to scan response"]
            ELSE IF \E r \in rows : r.id = id
            THEN [op |-> "get", id |-> id, found |-> TRUE, err |-> "nil",
                  resp |-> Scan(SelectColumns(CHOOSE r \in rows : r.id = id))]
            ELSE [op |-> "get", id |-> id, found |-> FALSE, err |-> "no response found with ID"]
    /\ UNCHANGED <<rows, seq, now, saved, removed, opens>>

\* what ListResponses(limit, offset) returns when the query gives the rows in
\* order q: the rows of the window, each scanned into a Response
ListResult(q, limit, offset) ==
    LET w == LimitOffset(q, limit, offset)
    IN  [op |-> "list", limit |-> limit, offset |-> offset, err |-> "nil",
         resps |-> [i \in 1..Len(w) |-> Scan(SelectColumns(w[i]))]]

\* ListResponses with limit and offset drawn from args: the rows in order,
\* limited, each scanned into a Response
ListResponsesWith(args) ==
    /\ Opened
    /\ \E limit \in args, offset \in args, fails \in BOOLEAN :
        IF fails
        THEN storeRet' = [op |-> "list", limit |-> limit, offset |-> offset,
                          err |-> "failed to query responses", resps |-> <<>>]
        ELSE \E q \in Orderings(rows) : storeRet' = ListResult(q, limit, offset)
    /\ UNCHANGED <<rows, seq, now, saved, removed, opens>>

ListResponses == ListResponsesWith(Limits)

\* DeleteResponse: DELETE FROM responses WHERE id = ?
DeleteResponse ==
    /\ Opened
    /\ \E id \in Ids, fails \in BOOLEAN :
        IF fails
        THEN /\ storeRet' = [op |-> "delete", id |-> id, err |-> "failed to delete response"]
             /\ UNCHANGED <<rows, removed>>
        ELSE /\ rows' = DeleteRows(rows, id)
             /\ removed' = removed \cup {r.id : r \in {x \in rows : x.id = id}}
             /\ storeRet' = [op |-> "delete", id |-> id, err |-> "nil"]
    /\ UNCHANGED <<seq, now, saved, opens>>

\* ClearHistory: DELETE FROM responses
ClearHistory ==
    /\ Opened
    /\ \E fails \in BOOLEAN :
        IF fails
        THEN /\ storeRet' = [op |-> "clear", err |-> "failed to clear history"]
             /\ UNCHANGED <<rows, removed>>
        ELSE /\ rows' = ClearRows(rows)
             /\ removed' = removed \cup {r.id : r \in rows}
             /\ storeRet' = [op |-> "clear", err |-> "nil"]
    /\ UNCHANGED <<seq, now, saved, opens>>

\* a second passes on the wall clock
Tick ==
    /\ now < MaxClock
    /\ now' = now + 1
    /\ UNCHANGED <<rows, seq, storeRet, saved, removed, opens>>

InitStore == StoreIdle /\ PostIdle /\ GetIdle /\ ListIdle /\ JsonIdle /\ GenIdle

\* whether a ClearHistory succeeded and no SaveResponse has since, after the
\* store operation of this step
ClearedAfter ==
    IF storeRet'.op = "clear" /\ storeRet'.err = "nil" THEN TRUE
    ELSE IF storeRet'.op = "save" /\ storeRet'.err = "nil" THEN FALSE
    ELSE cleared

NextStore ==
    \/ SaveResponse /\ cleared' = ClearedAfter
            /\ UNCHANGED <<postVars, getVars, deleted, listVars, jsonVars, genVars>>
    \/ GetResponse /\ UNCHANGED <<postVars, getVars, histVars, listVars, jsonVars, genVars>>
    \/ ListResponses /\ UNCHANGED <<postVars, getVars, histVars, listVars, jsonVars, genVars>>
    \/ DeleteResponse /\ UNCHANGED <<postVars, getVars, histVars, listVars, jsonVars, genVars>>
    \/ ClearHistory /\ cleared' = ClearedAfter
            /\ UNCHANGED <<postVars, getVars, deleted, listVars, jsonVars, genVars>>
    \/ Tick /\ UNCHANGED <<postVars, getVars, histVars, listVars, jsonVars, genVars>>

SpecStore == InitStore /\ [][NextStore]_vars

----------------------------------------------------------------------------
(* History Store, listed: the history list command run again and again on  *)
(* a table that no one writes to                                           *)

\* limit and offset as the history list command forwards them: c.Int("limit")
\* and c.Int("offset"), unchecked
ListArgs == (-1)..MaxRows

\* history list --limit limit --offset offset, any limit and offset
ListAny == ListResponsesWith(ListArgs)

\* the offset of the next page of the listing under way
NextOffset == Len(pages) * pageSize

\* history list --limit pageSize --offset NextOffset: the next page of a
\* listing by pages of pageSize, while the offset is short of the table's end
ListPage ==
    /\ Opened
    /\ NextOffset < Cardinality(rows)
    /\ \E fails \in BOOLEAN :
        IF fails
        THEN /\ storeRet' = [op |-> "list", limit |-> pageSize, offset |-> NextOffset,
                              err |-> "failed to query responses", resps |-> <<>>]
             /\ UNCHANGED pages
        ELSE \E q \in Orderings(rows) :
                LET r == ListResult(q, pageSize, NextOffset)
                IN  /\ storeRet' = r
                    /\ pages' = Append(pages, r.resps)
    /\ UNCHANGED <<rows, seq, now, saved, removed, opens, pageSize>>

\* a table that n SaveResponse calls at times t[1] <= ... <= t[n] filled and
\* from which the rows outside kept were deleted
InitList ==
    /\ \E n \in 0..MaxRows : \E t \in [1..n -> 1..MaxClock] : \E kept \in SUBSET (1..n) :
        /\ \A i \in 1..(n - 1) : t[i] <= t[i + 1]
        /\ rows = {InsertRow(i, PlainArgs, t[i]) : i \in kept}
        /\ seq = n
        /\ now = IF n = 0 THEN 1 ELSE t[n]
        /\ saved = [i \in 1..n |-> [id |-> i, args |-> PlainArgs, at |-> t[i], open |-> 1]]
        /\ removed = (1..n) \ kept
    /\ storeRet = [op |-> "open", err |-> "nil"]
    /\ opens = 1
    /\ deleted = {}
    /\ cleared = FALSE
    /\ pageSize \in 1..MaxRows
    /\ pages = <<>>
    /\ PostIdle
    /\ GetIdle
    /\ JsonIdle
    /\ GenIdle

\* listings leave the table as it is: the single listings are taken before
\* the listing by pages starts
NextList ==
    \/ pages = <<>> /\ ListAny /\ UNCHANGED <<postVars, getVars, histVars, listVars, jsonVars, genVars>>
    \/ ListPage /\ UNCHANGED <<postVars, getVars, histVars, jsonVars, genVars>>

SpecList == InitList /\ [][NextList]_vars

----------------------------------------------------------------------------
(* History Store, over its life: the database file is closed and opened    *)
(* again, and the ids that callers deleted are recorded                     *)

\* the record after the store operation of this step
DeletedAfter ==
    IF storeRet'.op = "delete" /\ storeRet'.err = "nil"
    THEN deleted \cup {storeRet'.id} ELSE deleted

NextLife ==
    \/ NewSQLiteStorage /\ UNCHANGED <<postVars, getVars, histVars, listVars, jsonVars, genVars>>
    \/ SavePlain /\ UNCHANGED <<postVars, getVars, histVars, listVars, jsonVars, genVars>>
    \/ GetResponse /\ UNCHANGED <<postVars, getVars, histVars, listVars, jsonVars, genVars>>
    \/ DeleteResponse /\ deleted' = DeletedAfter
            /\ UNCHANGED <<postVars, getVars, cleared, listVars, jsonVars, genVars>>
    \/ ClearHistory /\ UNCHANGED <<postVars, getVars, histVars, listVars, jsonVars, genVars>>

SpecLife == InitStore /\ [][NextLife]_vars

----------------------------------------------------------------------------
(* Entity Schemas: a Dataset through json.Marshal and json.Unmarshal.  A   *)
(* slice is nil or holds elements, a pointer is nil or holds a value, a    *)
(* *struct{} is nil or not.  A JSON value is null, a string, a number, a   *)
(* boolean, an array or an object (its members by key).                    *)

NilSlice == [nil |-> TRUE, elems |-> <<>>]

Slice(es) == [nil |-> FALSE, elems |-> es]

NilPtr == [nil |-> TRUE]

Ptr(v) == [nil |-> FALSE, v |-> v]

JNull == [t |-> "null"]

JString(x) == [t |-> "string", v |-> x]

JNumber(x) == [t |-> "number", v |-> x]

JBool(x) == [t |-> "bool", v |-> x]

JArray(xs) == [t |-> "array", v |-> xs]

JObject(members) == [t |-> "object", v |-> members]

NoMembers == [k \in {} |-> JNull]

\* a member with an omitempty tag: left out when the pointer is nil
OmitEmpty(key, isNil, j) == IF isNil THEN NoMembers ELSE key :> j

\* a slice whose elements encode to js: null when nil, otherwise the array
MarshalSlice(sl, js) == IF sl.nil THEN JNull ELSE JArray(js)

MarshalTermAssociation(x) == JObject("urn" :> JString(x.URN))

MarshalTagAssociation(x) == JObject("tag" :> JString(x.Tag))

MarshalAuditStamp(x) ==
    JObject("time" :> JNumber(x.Time) @@ "actor" :> JString(x.Actor))

\* FieldGlossaryTermsContainer and GlossaryTerms alike
MarshalTerms(x) ==
    JObject("terms" :> MarshalSlice(x.Terms,
                            [i \in 1..Len(x.Terms.elems) |->
                                MarshalTermAssociation(x.Terms.elems[i])])
            @@ "auditStamp" :> MarshalAuditStamp(x.AuditStamp))

\* variant: NumberType carries the tag json:"-"
MarshalFieldTypeStringOnly(x) ==
    JObject(OmitEmpty("com.linkedin.schema.StringType", ~x.StringType, JObject(NoMembers)))

\* FieldType: each tag is a *struct{} with omitempty
MarshalFieldType(x) ==
    JObject(OmitEmpty("com.linkedin.schema.StringType", ~x.StringType, JObject(NoMembers))
            @@ OmitEmpty("com.linkedin.schema.NumberType", ~x.NumberType, JObject(NoMembers)))

MarshalSchemaField(x) ==
    JObject("fieldPath" :> JString(x.FieldPath)
            @@ "description" :> JString(x.Description)
            @@ "type" :> JObject("type" :> MarshalFieldType(x.Type.Type))
            @@ "nativeDataType" :> JString(x.NativeDataType)
            @@ "recursive" :> JBool(x.Recursive)
            @@ OmitEmpty("glossaryTerms", x.GlossaryTerms.nil,
                         IF x.GlossaryTerms.nil THEN JNull
                         ELSE MarshalTerms(x.GlossaryTerms.v)))

MarshalSchemaMetadata(x) ==
    JObject("schemaName" :> JString(x.SchemaName)
            @@ "platform" :> JString(x.Platform)
            @@ "version" :> JNumber(x.Version)
            @@ "hash" :> JString(x.Hash)
            @@ "platformSchema" :>
                    JObject("com.linkedin.schema.MySqlDDL" :>
                        JObject("tableSchema" :>
                            JString(x.PlatformSchema.MySqlDDL.TableSchema)))
            @@ "fields" :> MarshalSlice(x.Fields,
                            [i \in 1..Len(x.Fields.elems) |->
                                MarshalSchemaField(x.Fields.elems[i])]))

MarshalDatasetKey(x) ==
    JObject("platform" :> JString(x.Platform) @@ "name" :> JString(x.Name)
            @@ "origin" :> JString(x.Origin))

MarshalEditableSchemaFieldInfo(x) ==
    JObject("fieldPath" :> JString(x.FieldPath)
            @@ "glossaryTerms" :> MarshalTerms(x.GlossaryTerms))

\* json.Marshal of a Dataset; editableSchemaMetadata is a struct, which
\* omitempty never leaves out
MarshalDataset(x) ==
    JObject("schemaMetadata" :>
                JObject("value" :> MarshalSchemaMetadata(x.SchemaMetadata.Value))
            @@ "datasetKey" :> JObject("value" :> MarshalDatasetKey(x.Key.Value))
            @@ "globalTags" :>
                JObject("value" :>
                    JObject("tags" :>
                        MarshalSlice(x.GlobalTags.Value.Tags,
                            [i \in 1..Len(x.GlobalTags.Value.Tags.elems) |->
                                MarshalTagAssociation(x.GlobalTags.Value.Tags.elems[i])])))
            @@ "glossaryTerms" :> JObject("value" :> MarshalTerms(x.GlossaryTerms.Value))
            @@ "urn" :> JString(x.URN)
            @@ "editableSchemaMetadata" :>
                JObject("value" :>
                    JObject("editableSchemaFieldInfo" :>
                        LET infos == x.EditableSchemaMetadata.Value.EditableSchemaFieldInfo
                        IN  MarshalSlice(infos,
                                [i \in 1..Len(infos.elems) |->
                                    MarshalEditableSchemaFieldInfo(infos.elems[i])]))))

\* the member of an object by key; a key that is absent leaves the field as
\* it was, like null does
Member(j, key) ==
    IF j.t = "object" /\ key \in DOMAIN j.v THEN j.v[key] ELSE JNull

\* json.Unmarshal into a zero value, by the type of the field: a JSON value of
\* another type leaves the zero value in place
UnmarshalString(j) == IF j.t = "string" THEN j.v ELSE ""

UnmarshalInt(j) == IF j.t = "number" THEN j.v ELSE 0

UnmarshalBool(j) == IF j.t = "bool" THEN j.v ELSE FALSE

\* the elements of an array, none for any other value
Elems(j) == IF j.t = "array" THEN j.v ELSE <<>>

\* a slice field whose elements decode to es: nil unless the value is an array
UnmarshalSlice(j, es) == IF j.t = "array" THEN Slice(es) ELSE NilSlice

\* a *struct{}: allocated for an object, nil otherwise
UnmarshalEmptyStruct(j) == j.t = "object"

UnmarshalTermAssociation(j) == [URN |-> UnmarshalString(Member(j, "urn"))]

UnmarshalTagAssociation(j) == [Tag |-> UnmarshalString(Member(j, "tag"))]

UnmarshalAuditStamp(j) ==
    [Time |-> UnmarshalInt(Member(j, "time")),
     Actor |-> UnmarshalString(Member(j, "actor"))]

UnmarshalTerms(j) ==
    [Terms |->
        LET a == Member(j, "terms")
        IN  UnmarshalSlice(a, [i \in 1..Len(Elems(a)) |->
                                    UnmarshalTermAssociation(Elems(a)[i])]),
     AuditStamp |-> UnmarshalAuditStamp(Member(j, "auditStamp"))]

UnmarshalFieldType(j) ==
    [StringType |-> UnmarshalEmptyStruct(Member(j, "com.linkedin.schema.StringType")),
     NumberType |-> UnmarshalEmptyStruct(Member(j, "com.linkedin.schema.NumberType"))]

UnmarshalSchemaField(j) ==
    [FieldPath |-> UnmarshalString(Member(j, "fieldPath")),
     Description |-> UnmarshalString(Member(j, "description")),
     Type |-> [Type |-> UnmarshalFieldType(Member(Member(j, "type"), "type"))],
     NativeDataType |-> UnmarshalString(Member(j, "nativeDataType")),
     Recursive |-> UnmarshalBool(Member(j, "recursive")),
     GlossaryTerms |->
        IF Member(j, "glossaryTerms").t = "object"
        THEN Ptr(UnmarshalTerms(Member(j, "glossaryTerms")))
        ELSE NilPtr]

UnmarshalSchemaMetadata(j) ==
    [SchemaName |-> UnmarshalString(Member(j, "schemaName")),
     Platform |-> UnmarshalString(Member(j, "platform")),
     Version |-> UnmarshalInt(Member(j, "version")),
     Hash |-> UnmarshalString(Member(j, "hash")),
     PlatformSchema |->
        [MySqlDDL |->
            [TableSchema |->
                UnmarshalString(
                    Member(Member(Member(j, "platformSchema"),
                                  "com.linkedin.schema.MySqlDDL"), "tableSchema"))]],
     Fields |->
        LET a == Member(j, "fields")
        IN  UnmarshalSlice(a, [i \in 1..Len(Elems(a)) |->
                                    UnmarshalSchemaField(Elems(a)[i])])]

UnmarshalDatasetKey(j) ==
    [Platform |-> UnmarshalString(Member(j, "platform")),
     Name |-> UnmarshalString(Member(j, "name")),
     Origin |-> UnmarshalString(Member(j, "origin"))]

UnmarshalEditableSchemaFieldInfo(j) ==
    [FieldPath |-> UnmarshalString(Member(j, "fieldPath")),
     GlossaryTerms |-> UnmarshalTerms(Member(j, "glossaryTerms"))]

\* json.Unmarshal into a Dataset
UnmarshalDataset(j) ==
    [SchemaMetadata |->
        [Value |-> UnmarshalSchemaMetadata(Member(Member(j, "schemaMetadata"), "value"))],
     Key |-> [Value |-> UnmarshalDatasetKey(Member(Member(j, "datasetKey"), "value"))],
     GlobalTags |->
        [Value |->
            [Tags |->
                LET a == Member(Member(Member(j, "globalTags"), "value"), "tags")
                IN  UnmarshalSlice(a, [i \in 1..Len(Elems(a)) |->
                                            UnmarshalTagAssociation(Elems(a)[i])])]],
     GlossaryTerms |->
        [Value |-> UnmarshalTerms(Member(Member(j, "glossaryTerms"), "value"))],
     URN |-> UnmarshalString(Member(j, "urn")),
     EditableSchemaMetadata |->
        [Value |->
            [EditableSchemaFieldInfo |->
                LET a == Member(Member(Member(j, "editableSchemaMetadata"), "value"),
                                "editableSchemaFieldInfo")
                IN  UnmarshalSlice(a, [i \in 1..Len(Elems(a)) |->
                                            UnmarshalEditableSchemaFieldInfo(Elems(a)[i])])]]]

\* the values the Datasets are drawn from
NoTerms == [Terms |-> NilSlice, AuditStamp |-> [Time |-> 0, Actor |-> ""]]

EmptyTerms == [Terms |-> Slice(<<>>), AuditStamp |-> [Time |-> 0, Actor |-> ""]]

SomeTerms ==
    [Terms |-> Slice(<<[URN |-> "urn:li:glossaryTerm:t"]>>),
     AuditStamp |-> [Time |-> 1, Actor |-> "urn:li:corpuser:a"]]

FieldTypes == [StringType : BOOLEAN, NumberType : BOOLEAN]

SchemaFields ==
    {[FieldPath |-> "f", Description |-> "", Type |-> [Type |-> ft],
      NativeDataType |-> "", Recursive |-> r, GlossaryTerms |-> g] :
        ft \in FieldTypes, r \in BOOLEAN,
        g \in {NilPtr, Ptr(NoTerms), Ptr(EmptyTerms), Ptr(SomeTerms)}}

RECURSIVE FieldSeqs(_)
FieldSeqs(n) ==
    IF n = 0 THEN {<<>>}
    ELSE {Append(fs, f) : fs \in FieldSeqs(n - 1), f \in SchemaFields}

FieldSlices == {NilSlice} \cup {Slice(fs) : fs \in UNION {FieldSeqs(k) : k \in 0..MaxFields}}

\* a Dataset with these fields and everything else zero
ZeroDataset(fs) ==
    [SchemaMetadata |->
        [Value |-> [SchemaName |-> "", Platform |-> "", Version |-> 0, Hash |-> "",
                    PlatformSchema |-> [MySqlDDL |-> [TableSchema |-> ""]],
                    Fields |-> fs]],
     Key |-> [Value |-> [Platform |-> "", Name |-> "", Origin |-> ""]],
     GlobalTags |-> [Value |-> [Tags |-> NilSlice]],
     GlossaryTerms |-> [Value |-> NoTerms],
     URN |-> "",
     EditableSchemaMetadata |-> [Value |-> [EditableSchemaFieldInfo |-> NilSlice]]]

\* with slices that are empty, not nil
EmptyDataset(fs) ==
    [ZeroDataset(fs) EXCEPT
        !.GlobalTags.Value.Tags = Slice(<<>>),
        !.GlossaryTerms.Value = EmptyTerms,
        !.EditableSchemaMetadata.Value.EditableSchemaFieldInfo = Slice(<<>>)]

\* with nothing zero
FullDataset(fs) ==
    [SchemaMetadata |->
        [Value |-> [SchemaName |-> "s", Platform |-> "urn:li:dataPlatform:mysql",
                    Version |-> 1, Hash |-> "h",
                    PlatformSchema |-> [MySqlDDL |-> [TableSchema |-> "<ddl>"]],
                    Fields |-> fs]],
     Key |-> [Value |-> [Platform |-> "urn:li:dataPlatform:mysql", Name |-> "s",
                         Origin |-> "PROD"]],
     GlobalTags |-> [Value |-> [Tags |-> Slice(<<[Tag |-> "urn:li:tag:g"]>>)]],
     GlossaryTerms |-> [Value |-> SomeTerms],
     URN |-> "urn:li:dataset:s",
     EditableSchemaMetadata |->
        [Value |-> [EditableSchemaFieldInfo |->
                        Slice(<<[FieldPath |-> "f", GlossaryTerms |-> SomeTerms]>>)]]]

Datasets ==
    UNION {{ZeroDataset(fs), EmptyDataset(fs), FullDataset(fs)} : fs \in FieldSlices}

\* json.Marshal(dataset)
Encode ==
    /\ jsonPc = "value"
    /\ encoded' = MarshalDataset(original)
    /\ jsonPc' = "encoded"
    /\ UNCHANGED <<original, decoded>>

\* json.Unmarshal(data, &dataset) into a zero Dataset
Decode ==
    /\ jsonPc = "encoded"
    /\ decoded' = UnmarshalDataset(encoded)
    /\ jsonPc' = "decoded"
    /\ UNCHANGED <<original, encoded>>

InitJSON ==
    /\ jsonPc = "value"
    /\ original \in Datasets
    /\ encoded = <<>>
    /\ decoded = <<>>
    /\ PostIdle
    /\ GetIdle
    /\ StoreIdle
    /\ ListIdle
    /\ GenIdle

NextJSON ==
    \/ Encode /\ UNCHANGED <<postVars, getVars, storeVars, histVars, listVars, genVars>>
    \/ Decode /\ UNCHANGED <<postVars, getVars, storeVars, histVars, listVars, genVars>>

SpecJSON == InitJSON /\ [][NextJSON]_vars

----------------------------------------------------------------------------
(* generate command: runGenerate from the language-model call on.  The     *)
(* text the model returns is payload, which is what PostEntity is called   *)
(* with.                                                                   *)

\* the texts the language model may return
GenTexts ==
    Texts(MaxGenLen) \cup {ArrayText(es) : es \in UNION {ElemSeqs(k) : k \in 0..MaxElems}}

\* what the user typed
UserInput == "a table of users"

\* json.Unmarshal([]byte(responseData), &jsonResponse) with jsonResponse
\* []map[string]interface{} returns no error: the text is a JSON array and
\* each of its elements is an object
ParsesAsObjects(t) ==
    LET u == Unmarshal(t)
    IN  u.ok /\ \A i \in 1..Len(u.datasets) : Head(u.datasets[i]) = "{"

\* schemaName, schemaURN and datasetName as extracted from the first element:
\* the objects of the alphabet have no members, so none is found
ExtractNames(t) == <<"", "", "">>

\* variant: the history is not written
GenAfterParseSkipsStore(ok) ==
    IF ok THEN [pc |-> "print", ret |-> Nil]
    ELSE [pc |-> "done", ret |-> [msg |-> "error parsing JSON response"]]

\* where runGenerate goes after json.Unmarshal
GenAfterParse(ok) ==
    IF ok THEN [pc |-> "open", ret |-> Nil]
    ELSE [pc |-> "done", ret |-> [msg |-> "error parsing JSON response"]]

\* variant: a failure of the history store is printed and returned
GenAfterStoreAborts(op, err) ==
    IF err = "nil"
    THEN [pc |-> IF op = "open" THEN "save" ELSE "print",
          out |-> IF op = "open" THEN <<>>
                  ELSE <<[kind |-> "debug", msg |-> "Response saved to history with ID"]>>,
          ret |-> Nil]
    ELSE [pc |-> "done",
          out |-> <<[kind |-> "warning", msg |-> err]>>,
          ret |-> [msg |-> err]]

\* where runGenerate goes after NewSQLiteStorage (op = "open") and after
\* SaveResponse (op = "save"), and what it prints: an error is a warning
GenAfterStore(op, err) ==
    IF err = "nil"
    THEN [pc |-> IF op = "open" THEN "save" ELSE "print",
          out |-> IF op = "open" THEN <<>>
                  ELSE <<[kind |-> "debug", msg |-> "Response saved to history with ID"]>>,
          ret |-> Nil]
    ELSE [pc |-> "print",
          out |-> <<[kind |-> "warning", msg |-> err]>>,
          ret |-> Nil]

\* responseData, err := sendOpenAIRequest(client, model, prompt)
GenerateLLM ==
    /\ genPc = "llm"
    /\ \E fails \in BOOLEAN :
        IF fails
        THEN /\ genPc' = "done"
             /\ genRet' = [msg |-> "error sending request to OpenAI"]
             /\ UNCHANGED payload
        ELSE /\ payload' \in GenTexts
             /\ genPc' = "write"
             /\ UNCHANGED genRet
    /\ UNCHANGED <<resource, postPc, datasets, postIdx, postReqs, postResps, postRet,
                   catalog, storeVars, toStdout, skipPost, genOut>>

\* os.WriteFile(responseFile, []byte(responseData), 0644)
GenerateWrite ==
    /\ genPc = "write"
    /\ \E fails \in BOOLEAN :
        IF fails
        THEN /\ genPc' = "done"
             /\ genRet' = [msg |-> "error writing response to file"]
        ELSE /\ genPc' = "parse"
             /\ UNCHANGED genRet
    /\ UNCHANGED <<postVars, storeVars, toStdout, skipPost, genOut>>

\* json.Unmarshal of the response and the extraction of the names
GenerateParse ==
    /\ genPc = "parse"
    /\ LET n == GenAfterParse(ParsesAsObjects(payload))
       IN  /\ genPc' = n.pc
           /\ genRet' = n.ret
    /\ UNCHANGED <<postVars, storeVars, toStdout, skipPost, genOut>>

\* db, err := storage.NewSQLiteStorage()
GenerateOpen ==
    /\ genPc = "open"
    /\ NewSQLiteStorage
    /\ LET n == GenAfterStore("open", storeRet'.err)
       IN  /\ genPc' = n.pc
           /\ genOut' = genOut \o n.out
           /\ genRet' = n.ret
    /\ UNCHANGED <<postVars, toStdout, skipPost>>

\* id, err := db.SaveResponse(userInput, responseData, schemaName, schemaURN,
\* datasetName)
GenerateSave ==
    /\ genPc = "save"
    /\ SaveResponseWith({<<UserInput, payload>> \o ExtractNames(payload)})
    /\ LET n == GenAfterStore("save", storeRet'.err)
       IN  /\ genPc' = n.pc
           /\ genOut' = genOut \o n.out
           /\ genRet' = n.ret
    /\ UNCHANGED <<postVars, toStdout, skipPost>>

\* the output with --stdout, the return with --skip-post, and otherwise the
\* call of PostEntity("dataset", responseData)
GeneratePrint ==
    /\ genPc = "print"
    /\ genOut' = genOut
            \o (IF toStdout THEN <<[kind |-> "stdout", msg |-> "Generated JSON",
                                    text |-> payload]>> ELSE <<>>)
            \o (IF skipPost THEN <<>>
                ELSE <<[kind |-> "debug", msg |-> "posting the dataset"]>>)
    /\ IF skipPost
       THEN /\ genPc' = "done"
            /\ UNCHANGED <<postPc, resource>>
       ELSE /\ genPc' = "post"
            /\ postPc' = "call"
            /\ resource' = "dataset"
    /\ genRet' = Nil
    /\ UNCHANGED <<payload, datasets, postIdx, postReqs, postResps, postRet, catalog,
                   storeVars, toStdout, skipPost>>

\* PostEntity has returned: its error wrapped, or the confirmation
GenerateReturn ==
    /\ genPc = "post"
    /\ postPc = "done"
    /\ genPc' = "done"
    /\ IF postRet.err # Nil
       THEN /\ genRet' = [msg |-> "error posting datasets", cause |-> postRet.err]
            /\ UNCHANGED genOut
       ELSE /\ genRet' = Nil
            /\ genOut' = Append(genOut,
                    [kind |-> "stdout",
                     msg |-> IF postRet.count > 1 THEN "datasets created"
                             ELSE "Dataset created"])
    /\ UNCHANGED <<postVars, storeVars, toStdout, skipPost>>

\* the command starts on a database file that has no table yet
InitGenerate ==
    /\ genPc = "llm"
    /\ toStdout \in BOOLEAN
    /\ skipPost \in BOOLEAN
    /\ genOut = <<>>
    /\ genRet = Nil
    /\ PostIdle
    /\ rows = {}
    /\ seq = 0
    /\ now = 1
    /\ storeRet = [op |-> "open", err |-> "not opened"]
    /\ saved = <<>>
    /\ removed = {}
    /\ opens = 0
    /\ deleted = {}
    /\ cleared = FALSE
    /\ GetIdle
    /\ ListIdle
    /\ JsonIdle

NextGenerate ==
    \/ GenerateLLM /\ UNCHANGED <<getVars, histVars, listVars, jsonVars>>
    \/ GenerateWrite /\ UNCHANGED <<getVars, histVars, listVars, jsonVars>>
    \/ GenerateParse /\ UNCHANGED <<getVars, histVars, listVars, jsonVars>>
    \/ GenerateOpen /\ UNCHANGED <<getVars, histVars, listVars, jsonVars>>
    \/ GenerateSave /\ UNCHANGED <<getVars, histVars, listVars, jsonVars>>
    \/ GeneratePrint /\ UNCHANGED <<getVars, histVars, listVars, jsonVars>>
    \/ genPc = "post" /\ PostEntity
            /\ UNCHANGED <<getVars, storeVars, histVars, listVars, jsonVars, genVars>>
    \/ genPc = "post" /\ PostSingleEntity
            /\ UNCHANGED <<getVars, storeVars, histVars, listVars, jsonVars, genVars>>
    \/ GenerateReturn /\ UNCHANGED <<getVars, histVars, listVars, jsonVars>>

SpecGenerate == InitGenerate /\ [][NextGenerate]_vars

----------------------------------------------------------------------------
(* Properties of PostEntity (checked under SpecPost) *)

\* the payload is a well-formed JSON text whose value is an array
IsJSONArray(p) == Valid(p) /\ p[SkipWs(p, 1)] = "["

\* the elements of a payload that is a JSON array
ArrayElements(p) == Unmarshal(p).datasets

\* the elements of the array a call posts: those of the trimmed payload
PostedElements == ArrayElements(TrimSpace(payload))

\* the answer is a failure of the post: no answer at all, or a status outside
\* [200, 300)
RespFailed(o) == o.kind = "transport" \/ o.status \notin 200..299

\* the request PostEntity is to issue for element e
ExpectedPost(e) ==
    [method |-> "POST", resource |-> resource, body |-> <<"[">> \o e \o <<"]">>]

\* the index of the first failed post, 0 when none failed
FirstFailure ==
    IF \E k \in 1..Len(postResps) : RespFailed(postResps[k])
    THEN CHOOSE k \in 1..Len(postResps) :
            /\ RespFailed(postResps[k])
            /\ \A j \in 1..(k - 1) : ~RespFailed(postResps[j])
    ELSE 0

\* C1: a call on a well-formed JSON array of n elements that the server
\* answers with 2xx throughout has issued exactly n POST requests, the i-th
\* with the body "[" element i "]", and returns (n, nil).
C1_PostsEachElementOnce ==
    (postPc = "done" /\ IsJSONArray(payload) /\ FirstFailure = 0) =>
        LET es == ArrayElements(payload)
        IN  /\ postReqs = [i \in 1..Len(es) |-> ExpectedPost(es[i])]
            /\ postRet = [count |-> Len(es), err |-> Nil]

C1_Witness ==
    /\ postPc = "done"
    /\ IsJSONArray(payload)
    /\ FirstFailure = 0
    /\ Len(ArrayElements(payload)) = 3
    /\ ArrayElements(payload)[1] # ArrayElements(payload)[2]
    /\ Len(postReqs) = 3
    /\ postRet.count = 3

\* C2 as stated: a call on a payload that is not a JSON array issues no
\* request at any time and returns an error.
C2_NonArrayRejectedUnposted ==
    ~IsJSONArray(payload) =>
        /\ postReqs = <<>>
        /\ postPc = "done" => (postRet.err # Nil /\ postRet.count = 0)

\* C2, amended: a call on a payload that is not a JSON array once
\* strings.TrimSpace has cut the white space around it issues no request at
\* any time and returns an error.
C2_TrimmedNonArrayRejected ==
    ~IsJSONArray(TrimSpace(payload)) =>
        /\ postReqs = <<>>
        /\ postPc = "done" => (postRet.err # Nil /\ postRet.count = 0)

C2_Witness ==
    /\ payload = <<"{", "}">>
    /\ ~IsJSONArray(TrimSpace(payload))
    /\ postPc = "done"
    /\ postRet.err = [msg |-> "error parsing dataset array"]
    /\ postReqs = <<>>

\* C3: once the post of element k has failed, the requests of the call are
\* those for elements 1..k in order, one each, and the call is over: nothing
\* is posted after k and k is not posted again.
C3_FailFast ==
    FirstFailure # 0 =>
        LET es == PostedElements
        IN  /\ postPc = "done"
            /\ Len(postReqs) = FirstFailure
            /\ FirstFailure <= Len(es)
            /\ \A j \in 1..FirstFailure : postReqs[j] = ExpectedPost(es[j])

C3_Witness ==
    /\ FirstFailure = 2
    /\ Len(PostedElements) = 3
    /\ postPc = "done"
    /\ Len(postReqs) = 2

\* C4: a call that failed at element k leaves elements 1..k-1 on the catalog,
\* has issued nothing but POSTs, and returns the count 0 with an error that
\* names k and wraps the cause (the status code of a non-2xx answer).
C4_NoRollbackNoPartialCount ==
    (postPc = "done" /\ FirstFailure # 0) =>
        LET k == FirstFailure
            es == PostedElements
        IN  /\ catalog = [j \in 1..(k - 1) |-> <<"[">> \o es[j] \o <<"]">>]
            /\ \A j \in 1..Len(postReqs) : postReqs[j].method = "POST"
            /\ postRet.count = 0
            /\ postRet.err.msg = "error posting dataset"
            /\ postRet.err.n = k
            /\ IF postResps[k].kind = "transport"
               THEN postRet.err.cause.msg = "error sending request"
               ELSE /\ postRet.err.cause.msg = "request failed with status code"
                    /\ postRet.err.cause.code = postResps[k].status

C4_Witness ==
    /\ postPc = "done"
    /\ FirstFailure = 3
    /\ Len(catalog) = 2
    /\ postRet.count = 0
    /\ postRet.err.n = 3

----------------------------------------------------------------------------
(* Properties of GetDatasets (checked under SpecGet) *)

\* the answer is a page: a 2xx status and a body that decodes as the envelope
IsPage(o) == o.kind = "http" /\ o.status \in 200..299 /\ o.body = "envelope"

NonEmptyPage(o) == IsPage(o) /\ o.n > 0

\* the indices of the answers that are non-empty pages, in order
NonEmptyPageIndices ==
    SelectSeq([k \in 1..Len(getResps) |-> k], LAMBDA k : NonEmptyPage(getResps[k]))

\* those of them the callback has been given: all, but for the page it is
\* about to be given
DeliveredPageIndices ==
    IF getPc = "callback"
    THEN SubSeq(NonEmptyPageIndices, 1, Len(NonEmptyPageIndices) - 1)
    ELSE NonEmptyPageIndices

\* the server of the example: pages of perPage, perPage and 3 entities with
\* the cursors c1, c2 and none
ExampleServer ==
    /\ Len(getResps) >= 3
    /\ \A k \in 1..3 : IsPage(getResps[k])
    /\ getResps[1].n = perPage /\ getResps[1].cursor = "c1"
    /\ getResps[2].n = perPage /\ getResps[2].cursor = "c2"
    /\ getResps[3].n = 3 /\ getResps[3].cursor = ""

\* C5: the callback has run once for each non-empty page returned, in order,
\* with that page, and never with an empty one; every answer but the last is a
\* non-empty page with a cursor, so nothing is requested after an empty or
\* cursor-less page; against the example server the call makes three requests
\* and three callbacks with perPage, perPage and 3 entities.
C5_OneCallbackPerNonEmptyPage ==
    /\ Len(getReqs) = Len(getResps)
    /\ \A i \in 1..Len(pageCalls) : pageCalls[i].count > 0
    /\ [i \in 1..Len(pageCalls) |-> pageCalls[i].resp] = DeliveredPageIndices
    /\ \A i \in 1..Len(pageCalls) : pageCalls[i].count = getResps[pageCalls[i].resp].n
    /\ \A k \in 1..(Len(getResps) - 1) :
            NonEmptyPage(getResps[k]) /\ getResps[k].cursor # ""
    /\ ExampleServer =>
            /\ Len(getReqs) = 3
            /\ getPc \in {"callback", "done"}
            /\ getPc = "done" =>
                    [i \in 1..Len(pageCalls) |-> pageCalls[i].count] = <<perPage, perPage, 3>>

C5_Witness ==
    /\ ExampleServer
    /\ perPage = 2
    /\ getPc = "done"
    /\ Len(pageCalls) = 3
    /\ Len(getReqs) = 3
    /\ nReqs < MaxRequests

\* C6: the first request of a call carries the sort and query parameters and
\* no scrollId; every later request carries the scrollId of the answer just
\* before it and nothing else.
C6_CursorChaining ==
    \A k \in 1..Len(getReqs) :
        IF k = 1
        THEN getReqs[k].params = [sort |-> "urn", sortOrder |-> "ASCENDING", query |-> "*"]
        ELSE /\ getResps[k - 1].cursor # ""
             /\ getReqs[k].params = [scrollId |-> getResps[k - 1].cursor]

C6_Witness ==
    /\ Len(getReqs) = 3
    /\ getResps[1].cursor = "c1"
    /\ getResps[2].cursor = "c2"
    /\ getReqs[3].params = [scrollId |-> "c2"]
    /\ "c2" \in prevCursors

\* C7: a callback that returned an error was the last one, the call has
\* returned that error, and no request followed the page it was given.
C7_CallbackErrorStops ==
    \A i \in 1..Len(pageCalls) :
        pageCalls[i].err # Nil =>
            /\ i = Len(pageCalls)
            /\ getPc = "done"
            /\ getRet = pageCalls[i].err
            /\ Len(getReqs) = pageCalls[i].resp

C7_Witness ==
    /\ Len(pageCalls) = 2
    /\ pageCalls[2].err = [msg |-> "page error B"]
    /\ getResps[2].cursor # ""
    /\ getPc = "done"
    /\ nReqs < MaxRequests

\* C8: a request that failed (no answer, a status outside [200,300), or a body
\* that cannot be read or does not decode) is the last request of its call, which has returned
\* an error carrying the cause, and the callback has not run for it.
C8_FailedRequestNotRetried ==
    \A k \in 1..Len(getResps) :
        ~IsPage(getResps[k]) =>
            /\ k = Len(getReqs)
            /\ getPc = "done"
            /\ getRet.msg = (IF getResps[k].kind = "transport" THEN "error sending request"
                             ELSE IF getResps[k].status \notin 200..299
                                  THEN "request failed with status code"
                             ELSE IF getResps[k].body = "unreadable"
                                  THEN "error reading response body"
                             ELSE "error unmarshaling response")
            /\ (getResps[k].kind = "http" /\ getResps[k].status \notin 200..299) =>
                    getRet.code = getResps[k].status
            /\ \A i \in 1..Len(pageCalls) : pageCalls[i].resp # k

C8_Witness ==
    /\ Len(getResps) = 2
    /\ getResps[2].kind = "http"
    /\ getResps[2].status = 300
    /\ getRet = [msg |-> "request failed with status code", code |-> 300]
    /\ Len(pageCalls) = 1
    /\ getPc = "done"
    /\ nReqs < MaxRequests

----------------------------------------------------------------------------
(* Properties of the History Store (checked under SpecStore) *)

SavedIds == {saved[i].id : i \in 1..Len(saved)}

\* the record of the SaveResponse that returned id
SaveOf(id) == saved[CHOOSE i \in 1..Len(saved) : saved[i].id = id]

\* C9: the ids SaveResponse returned are pairwise different, and a GetResponse
\* of a saved id that was not removed (and did not fail on I/O) returns the
\* entry with that id and the prompt, response, schema name, schema URN and
\* dataset name that were saved.
C9_SaveGetRoundTrip ==
    /\ \A i, j \in 1..Len(saved) : i # j => saved[i].id # saved[j].id
    /\ (/\ storeRet.op = "get"
        /\ storeRet.err # "failed to scan response"
        /\ storeRet.id \in SavedIds \ removed) =>
            /\ storeRet.found
            /\ storeRet.err = "nil"
            /\ storeRet.resp.ID = storeRet.id
            /\ <<storeRet.resp.Prompt, storeRet.resp.Response, storeRet.resp.SchemaName,
                 storeRet.resp.SchemaURN, storeRet.resp.DatasetName>>
                    = SaveOf(storeRet.id).args

C9_Witness ==
    /\ storeRet.op = "get"
    /\ storeRet.found
    /\ storeRet.id = 2
    /\ storeRet.resp.SchemaURN = "u2"
    /\ storeRet.resp.DatasetName = "d2"
    /\ 1 \in removed

\* C10: every entry GetResponse or ListResponses returns has, as its
\* CreatedAt, the time at which its row was inserted.
C10_CreatedAtIsInsertTime ==
    /\ (storeRet.op = "get" /\ storeRet.found) =>
            storeRet.resp.CreatedAt = SaveOf(storeRet.resp.ID).at
    /\ (storeRet.op = "list" /\ storeRet.err = "nil") =>
            \A i \in 1..Len(storeRet.resps) :
                storeRet.resps[i].CreatedAt = SaveOf(storeRet.resps[i].ID).at

----------------------------------------------------------------------------
(* Properties of the history listing (checked under SpecList) *)

\* the time at which the row of a listed entry was inserted
InsertTime(resp) == SaveOf(resp.ID).at

\* the ids of a sequence of listed entries
IdsOf(resps) == [i \in 1..Len(resps) |-> resps[i].ID]

\* C11: the entries ListResponses returns are ordered newest first: of two
\* consecutive entries, the row of the earlier-listed one was inserted no
\* earlier than the row of the later-listed one.
C11_NewestFirst ==
    (storeRet.op = "list" /\ storeRet.err = "nil") =>
        \A i \in 1..(Len(storeRet.resps) - 1) :
            InsertTime(storeRet.resps[i]) >= InsertTime(storeRet.resps[i + 1])

C11_Witness ==
    /\ storeRet.op = "list"
    /\ storeRet.err = "nil"
    /\ Len(storeRet.resps) = 2
    /\ InsertTime(storeRet.resps[1]) > InsertTime(storeRet.resps[2])

\* C12, as claimed: whatever limit and offset are, ListResponses returns at
\* most limit entries, and none (and no error) when the offset is at or past
\* the number of stored entries.
C12_AtMostLimit ==
    (storeRet.op = "list" /\ storeRet.err = "nil") =>
        /\ Len(storeRet.resps) <= storeRet.limit
        /\ storeRet.offset >= Cardinality(rows) => storeRet.resps = <<>>

\* the number of rows from the offset to the end of the table
RowsFrom(offset) ==
    LET off == IF offset < 0 THEN 0 ELSE offset
    IN  IF off >= Cardinality(rows) THEN 0 ELSE Cardinality(rows) - off

\* C12, amended: a limit of zero or more bounds the number of entries
\* ListResponses returns; a negative limit bounds nothing, every entry from
\* the offset on is returned; and whatever the limit is, an offset at or past
\* the number of stored entries gives the empty sequence and no error.
C12_AtMostLimitUnlessNegative ==
    (storeRet.op = "list" /\ storeRet.err = "nil") =>
        /\ storeRet.limit >= 0 => Len(storeRet.resps) <= storeRet.limit
        /\ storeRet.limit < 0 => Len(storeRet.resps) = RowsFrom(storeRet.offset)
        /\ storeRet.offset >= Cardinality(rows) => storeRet.resps = <<>>

C12_Witness ==
    /\ storeRet.op = "list"
    /\ storeRet.err = "nil"
    /\ storeRet.limit = -1
    /\ storeRet.offset = 0
    /\ Cardinality(rows) = 2
    /\ Len(storeRet.resps) = 2

\* the pages of the listing under way, one after the other
RECURSIVE Concat(_)
Concat(ps) == IF ps = <<>> THEN <<>> ELSE Head(ps) \o Concat(Tail(ps))

\* the listing under way has fetched every page up to the table's end
PagesDone == pageSize >= 1 /\ NextOffset >= Cardinality(rows)

----------------------------------------------------------------------------
(* Properties of the History Store over its life (checked under SpecLife,  *)
(* C15 under SpecStore)                                                    *)

\* the last operation was a GetResponse that the database answered
GetAnswered == storeRet.op = "get" /\ storeRet.err # "failed to scan response"

NotFound == ~storeRet.found /\ storeRet.err = "no response found with ID"

\* C14, as claimed: once a DeleteResponse(id) has returned no error, a
\* GetResponse(id) fails with the not-found error, whatever was saved, deleted
\* or cleared in between.
C14_DeletedIdNeverReadable ==
    (GetAnswered /\ storeRet.id \in deleted) => NotFound

\* C14, amended: once an entry has been removed (its id was stored and a
\* DeleteResponse(id), or a ClearHistory, has succeeded), a GetResponse(id)
\* fails with the not-found error in every later state: no SaveResponse,
\* DeleteResponse, ClearHistory or reopening makes the id readable again.
C14_RemovedIdNeverReadable ==
    (GetAnswered /\ storeRet.id \in removed) => NotFound

C14_Witness ==
    /\ GetAnswered
    /\ storeRet.id = 1
    /\ 1 \in removed \cap deleted
    /\ NotFound
    /\ Len(saved) = 2
    /\ saved[2].open = 2

\* C15: after a ClearHistory that succeeded and before any further
\* SaveResponse, ListResponses returns the empty sequence for every limit and
\* offset, and GetResponse fails with the not-found error for every id that
\* was stored before the clear.
C15_ClearedStoreIsEmpty ==
    cleared =>
        /\ (storeRet.op = "list" /\ storeRet.err = "nil") => storeRet.resps = <<>>
        /\ (GetAnswered /\ storeRet.id \in SavedIds) => NotFound

C15_Witness ==
    /\ cleared
    /\ Len(saved) = 2
    /\ storeRet.op = "list"
    /\ storeRet.err = "nil"
    /\ storeRet.limit = -1
    /\ storeRet.offset = 0
    /\ storeRet.resps = <<>>

\* the step is a DeleteResponse that returned no error
DeleteSucceeds == storeRet'.op = "delete" /\ storeRet'.err = "nil"

\* C16: a DeleteResponse(id) that succeeds takes the row with that id, if
\* there is one, out of the table and changes nothing else: every other row
\* and the id sequence stay as they were (an id that is not stored leaves the
\* table unchanged), and a GetResponse of a stored entry that was not removed
\* still returns it with everything that was saved.
C16_DeleteTouchesOnlyItsId ==
    /\ [][DeleteSucceeds =>
            /\ rows' = {r \in rows : r.id # storeRet'.id}
            /\ seq' = seq]_vars
    /\ []((GetAnswered /\ deleted # {} /\ storeRet.id \in SavedIds \ removed) =>
            /\ storeRet.found
            /\ SelectColumns(CHOOSE r \in rows : r.id = storeRet.id)
                    = <<storeRet.id>> \o SaveOf(storeRet.id).args
                            \o <<SaveOf(storeRet.id).at>>
            /\ <<storeRet.resp.ID, storeRet.resp.Prompt, storeRet.resp.Response,
                 storeRet.resp.SchemaName, storeRet.resp.SchemaURN,
                 storeRet.resp.DatasetName>>
                    = <<storeRet.id>> \o SaveOf(storeRet.id).args)

C16_Witness ==
    /\ GetAnswered
    /\ storeRet.id = 2
    /\ storeRet.found
    /\ deleted = {0, 1}
    /\ removed = {1}

\* C18: the ids SaveResponse returns are strictly increasing in the order of
\* the calls, so none is returned twice, whatever was deleted or cleared in
\* between and also when the database file was closed and opened again.
C18_IdsStrictlyIncrease ==
    \A i, j \in 1..Len(saved) : i < j => saved[i].id < saved[j].id

C18_Witness ==
    /\ Len(saved) = 2
    /\ saved[1].open = 1
    /\ saved[2].open = 2
    /\ saved[1].id \in removed
    /\ cleared = FALSE
    /\ storeRet.op = "save"
    /\ storeRet.id = 2

----------------------------------------------------------------------------
(* Properties of the Entity Schemas (checked under SpecJSON) *)

\* the schema fields of a Dataset
FieldsOf(d) == d.SchemaMetadata.Value.Fields.elems

\* C17: a Dataset encoded to JSON and decoded back is equal to the original,
\* so on every field that was non-zero in the original in particular: a field
\* type keeps its string tag or its number tag, and a field keeps its
\* glossary-term associations, or their absence.
C17_DatasetRoundTrip ==
    jsonPc = "decoded" => decoded = original

C17_Witness ==
    /\ jsonPc = "decoded"
    /\ Len(FieldsOf(original)) = 1
    /\ FieldsOf(original)[1].Type.Type = [StringType |-> FALSE, NumberType |-> TRUE]
    /\ FieldsOf(original)[1].GlossaryTerms = Ptr(SomeTerms)
    /\ FieldsOf(decoded)[1].Type.Type.NumberType
    /\ original.URN # ""
    /\ "glossaryTerms" \in DOMAIN encoded.v["schemaMetadata"].v["value"].v["fields"].v[1].v

\* the string tag or the number tag is set, and not both
ExactlyOneTag(ft) == ft.StringType # ft.NumberType

\* C22: every schema field of a Dataset the program holds, and of a Dataset
\* it has decoded from JSON, has exactly one of the two type tags set: never
\* both the string tag and the number tag, and never neither.
C22_ExactlyOneTypeTag ==
    jsonPc = "decoded" =>
        /\ \A i \in 1..Len(FieldsOf(original)) :
                ExactlyOneTag(FieldsOf(original)[i].Type.Type)
        /\ \A i \in 1..Len(FieldsOf(decoded)) :
                ExactlyOneTag(FieldsOf(decoded)[i].Type.Type)

----------------------------------------------------------------------------
(* Properties of the generate command (checked under SpecGenerate) *)

\* the history holds the generation: the user's input and the model's text
Recorded == \E r \in rows : r.prompt = UserInput /\ r.response = payload

\* the command has printed a warning about the history store
StoreWarned == \E i \in 1..Len(genOut) : genOut[i].kind = "warning"

EarlyErrors ==
    {"error sending request to OpenAI", "error writing response to file",
     "error parsing JSON response"}

\* the command has got past the history store
PastStore ==
    \/ genPc \in {"print", "post"}
    \/ genPc = "done" /\ genRet.msg \notin EarlyErrors

\* a catalog post is under way or was made
PostAttempted == postPc # "done" \/ postReqs # <<>>

\* C19, as claimed: whatever text the language-model call returned, the
\* generation is in the History Store once a catalog post is attempted and
\* when the command is over (the response file was written and the store
\* gave no warning).
C19_EveryGenerationRecorded ==
    (/\ genPc \notin {"llm", "write"}
     /\ genRet.msg \notin {"error sending request to OpenAI",
                           "error writing response to file"}
     /\ ~StoreWarned
     /\ genPc = "done" \/ PostAttempted) => Recorded

\* C19, amended: a generation whose text parses as a JSON array of objects
\* is in the History Store (unless the store gave a warning) from before the
\* first catalog post is attempted to the end of the command, whether the
\* post is skipped, succeeds or fails; a text that does not parse so ends the
\* command with nothing recorded and nothing posted.
C19_ParsedGenerationRecorded ==
    /\ (PastStore /\ ~StoreWarned) => Recorded
    /\ PostAttempted => PastStore
    /\ (genPc = "done" /\ genRet.msg = "error parsing JSON response") =>
            /\ ~ParsesAsObjects(payload)
            /\ rows = {}
            /\ ~PostAttempted

C19_Witness ==
    /\ genPc = "done"
    /\ genRet.msg = "error posting datasets"
    /\ Len(postReqs) = 2
    /\ ~StoreWarned
    /\ Recorded

\* the line --stdout prints
PrintedJSON ==
    \E i \in 1..Len(genOut) :
        genOut[i] = [kind |-> "stdout", msg |-> "Generated JSON", text |-> payload]

\* the call of PostEntity was reached
PostCalled ==
    \E i \in 1..Len(genOut) : genOut[i] = [kind |-> "debug", msg |-> "posting the dataset"]

\* C20: a history store that cannot be opened, or a save that fails, is a
\* warning and does not end the command: the output is printed with
\* --stdout, PostEntity is called unless --skip-post is given, and what the
\* command returns is what the post gave, or nil when the post is skipped.
C20_StoreFailureIsAWarning ==
    StoreWarned =>
        /\ PastStore
        /\ rows = {}
        /\ genPc \in {"post", "done"} =>
            /\ toStdout => PrintedJSON
            /\ PostCalled = ~skipPost
        /\ genPc = "done" =>
            genRet = IF skipPost \/ postRet.err = Nil THEN Nil
                     ELSE [msg |-> "error posting datasets", cause |-> postRet.err]

C20_Witness ==
    /\ StoreWarned
    /\ genOut[1].msg = "failed to insert response"
    /\ genPc = "done"
    /\ toStdout
    /\ ~skipPost
    /\ Len(catalog) = 1
    /\ genRet = Nil

----------------------------------------------------------------------------
(* Properties of the scroll loop as it runs on (checked under SpecScroll) *)

\* the call is under way
InCall == getPc \in {"request", "callback"}

\* the call has returned
Returned == getPc = "done"

\* the loop has come round: the latest answer was a non-empty page with a
\* cursor, its callback returned no error, and the next request is due
GoesOn == getPc = "request" /\ getResps # <<>>

\* the first request of a call carries the sort and query parameters and no
\* scrollId, whatever cursors earlier calls were given
FirstRequestHasNoCursor ==
    /\ (getPc = "request" /\ getResps = <<>>) => (scrollId = "" /\ getReqs = <<>>)
    /\ getReqs # <<>> =>
            getReqs[1].params = [sort |-> "urn", sortOrder |-> "ASCENDING", query |-> "*"]

\* after every answer: the callback is entered for a non-empty page and for
\* nothing else; any other answer ends the call
EmptyPageChecked ==
    (getResps # <<>> /\ pageCalls = <<>>) =>
        IF NonEmptyPage(getResps[1]) THEN getPc = "callback" ELSE Returned

\* after every callback: the next request is due when the answer carried a
\* cursor and the callback returned no error, and it will carry that cursor;
\* anything else ends the call
AbsentCursorChecked ==
    pageCalls # <<>> =>
        IF getResps[1].cursor # "" /\ pageCalls[1].err = Nil
        THEN getPc = "request" /\ scrollId = getResps[1].cursor
        ELSE Returned

\* C21 as stated: every call of GetDatasets returns, given only that each
\* request is answered and each callback returns; both ends of the listing
\* (an empty page, an absent cursor) are looked for after every answer; and a
\* new call starts from the request without a cursor.
C21_EveryCallReturns ==
    /\ [](FirstRequestHasNoCursor /\ EmptyPageChecked /\ AbsentCursorChecked)
    /\ InCall ~> Returned

\* C21 as amended: the same, but a call is sure to return only if the server
\* at some point stops answering with non-empty pages that carry a cursor;
\* while it goes on doing so the call goes on asking.
C21_CallReturnsUnlessServerGoesOn ==
    /\ [](FirstRequestHasNoCursor /\ EmptyPageChecked /\ AbsentCursorChecked)
    /\ (<>[](~GoesOn)) => (InCall ~> Returned)

\* a second call has followed two cursors and returned on a page without one
C21_Witness ==
    /\ Returned
    /\ prevCursors # {}
    /\ scrollId = "c2"
    /\ getReqs = <<PaginateURL(perPage, ""), PaginateURL(perPage, "c2")>>
    /\ NonEmptyPage(getResps[1])
    /\ getResps[1].cursor = ""
    /\ pageCalls = <<[resp |-> 1, count |-> getResps[1].n, err |-> Nil]>>
    /\ getRet = Nil

====
